---- MODULE Spec2Model ----
(***************************************************************************)
(* Node-Jobs: a job scheduler on top of a bounded-delay platform timer.    *)
(*                                                                         *)
(*   PriorityQueue  binary min-heap over Comparable objects (tree_list)    *)
(*   PendingJob     heap element keyed by its absolute target timestamp    *)
(*   Job            a unit of work armed on the platform timer             *)
(*   Scheduler      arms jobs directly, or parks them in the pending queue *)
(*                  and migrates them with a chain of "pump" timers        *)
(*                                                                         *)
(* Objects are modelled by reference: a PendingJob / heap element is a     *)
(* natural number (its identity) and its mutable key lives in the object   *)
(* store `timestamp`.  The platform timer (setTimeout / clearTimeout) is   *)
(* the set `timers` of outstanding timers; `now` is the clock.             *)
(***************************************************************************)
EXTENDS Integers, Sequences, FiniteSets, TLC

VARIABLES
  _id_seed,                 \* Scheduler._id_seed
  _jobs_done,               \* Scheduler._jobs_done
  _jobs_cancelled,          \* Scheduler._jobs_cancelled
  _pending_jobs_cancelled,  \* Scheduler._pending_jobs_cancelled
  tree_list,                \* Scheduler._pending_queue.tree_list (sequence of object refs)
  timestamp,                \* object store: ref -> key (PendingJob.timestamp / MockNode._key)
  _scheduled_jobs,          \* Map<number, Job>: id -> [_milisec, ref]
  _pending_jobs,            \* Map<number, PendingJob>: id -> object ref
  _pending_job_handle,      \* NodeJS.Timeout of the pump, NULL when undefined
  timers,                   \* platform timer: outstanding timers [h, due, kind, job]
  now,                      \* platform clock, Date.now()
  ran,                      \* history: id -> number of times the job's task was invoked
  cancelled,                \* history: ids of issued jobs on which cancel_job has returned
  last,                     \* history: the operation performed by the last step
  hist,                     \* history of an on-time run: the first schedule call and the pump firings
  pq_phase,                 \* heap-sort driver: "insert" or "extract"
  pq_in,                    \* heap-sort driver: keys inserted, in call order
  pq_out                    \* heap-sort driver: keys returned by extract_min, in call order

vars == << _id_seed, _jobs_done, _jobs_cancelled, _pending_jobs_cancelled,
           tree_list, timestamp, _scheduled_jobs, _pending_jobs,
           _pending_job_handle, timers, now, ran, cancelled, last, hist,
           pq_phase, pq_in, pq_out >>

(***************************************************************************)
(* Bounds of the model and configuration of the scheduler under test.      *)
(***************************************************************************)
MaxJobs == 3          \* at most this many ids are issued
MaxTime == 6          \* the clock stops here
MaxTarget == 8        \* latest target timestamp of a job in the on-time specification
MaxLiveJobs == 2      \* at most this many ids are issued in the liveness specification
MaxElems == 4         \* heap elements allocated in the priority-queue specifications
MaxKey == 2           \* keys of heap elements range over 0..MaxKey

_max_delay == 2       \* new Scheduler(max_delay)
StartTime == 1        \* Date.now() when the scheduler is constructed (> 0)
ERROR_JOB_ID == 0
NULL == 0             \* null / undefined reference

\* the delays the callers ask for: below, at and above _max_delay, and above twice
\* _max_delay (the pump then has to be re-armed before the job can be promoted)
Delays == {0, _max_delay, _max_delay + 1, 2 * _max_delay + 1}
\* the on-time specification adds a delay that takes three pump firings
OnTimeDelays == Delays \cup {3 * _max_delay + 1}

Min(a, b) == IF a < b THEN a ELSE b

(***************************************************************************)
(* PriorityQueue                                                           *)
(***************************************************************************)
heap_size(T) == Len(T)

parent(idx) == idx \div 2

left(idx) == 2 * idx

right(idx) == 2 * idx + 1

\* node(idx) is tree_list[idx - 1] of a 0-based array: the idx-th entry of the sequence
node(T, idx) == T[idx]

\* Comparable.less: this.key() < that.key()
less(K, a, b) == K[a] < K[b]

min_node(T) == IF Len(T) = 0 THEN NULL ELSE T[1]

swap_node(T, i, j) == [T EXCEPT ![i] = node(T, j), ![j] = node(T, i)]

RECURSIVE heapify(_, _, _)
\* mutant: the right child is compared with node idx, not with the smaller so far
heapify_rhs_against_idx(T, K, idx) ==
  LET lhs == left(idx)
      rhs == right(idx)
      s1 == IF lhs <= heap_size(T) /\ less(K, node(T, lhs), node(T, idx))
            THEN lhs ELSE idx
      smallest == IF rhs <= heap_size(T) /\ less(K, node(T, rhs), node(T, idx))
                  THEN rhs ELSE s1
  IN  IF smallest = idx THEN T
      ELSE heapify(swap_node(T, idx, smallest), K, smallest)

heapify(T, K, idx) ==
  LET lhs == left(idx)
      rhs == right(idx)
      s1 == IF lhs <= heap_size(T) /\ less(K, node(T, lhs), node(T, idx))
            THEN lhs ELSE idx
      smallest == IF rhs <= heap_size(T) /\ less(K, node(T, rhs), node(T, s1))
                  THEN rhs ELSE s1
  IN  IF smallest = idx THEN T
      ELSE heapify(swap_node(T, idx, smallest), K, smallest)

RECURSIVE insert_sift(_, _, _)
insert_sift(T, K, node_idx) ==
  LET parent_idx == parent(node_idx)
  IN  IF parent_idx > 0 /\ less(K, node(T, node_idx), node(T, parent_idx))
      THEN insert_sift(swap_node(T, node_idx, parent_idx), K, parent_idx)
      ELSE T

\* insert(node): push, then exchange with the parent while strictly smaller
insert(T, K, n) == insert_sift(Append(T, n), K, heap_size(T) + 1)

\* mutant: the last node of the array is popped, without the swap with the root
extract_min_pops_last(T, K) ==
  IF heap_size(T) < 1
  THEN [tree_list |-> T, ret |-> NULL, err |-> "EmptyQueue"]
  ELSE [tree_list |-> SubSeq(T, 1, Len(T) - 1), ret |-> T[Len(T)], err |-> "none"]

\* mutant: the last node is moved to the root and not sifted down
extract_min_no_heapify(T, K) ==
  IF heap_size(T) < 1
  THEN [tree_list |-> T, ret |-> NULL, err |-> "EmptyQueue"]
  ELSE LET S == swap_node(T, 1, heap_size(T))
       IN  [tree_list |-> SubSeq(S, 1, Len(S) - 1), ret |-> S[Len(S)], err |-> "none"]

\* extract_min(): [tree_list, ret, err]
extract_min(T, K) ==
  IF heap_size(T) < 1
  THEN [tree_list |-> T, ret |-> NULL, err |-> "EmptyQueue"]
  ELSE LET S == swap_node(T, 1, heap_size(T))
           popped == S[Len(S)]
           rest == SubSeq(S, 1, Len(S) - 1)
       IN  [tree_list |-> heapify(rest, K, 1), ret |-> popped, err |-> "none"]

\* the linear scan of decrease_key: the last position holding the object, 0 if none
find_node(T, n) ==
  LET hits == {i \in 1..Len(T) : T[i] = n}
  IN  IF hits = {} THEN 0 ELSE CHOOSE i \in hits : \A j \in hits : j <= i

RECURSIVE decrease_sift(_, _, _, _)
decrease_sift(T, K, node_idx, parent_idx) ==
  IF parent_idx > 0 /\ less(K, node(T, node_idx), node(T, parent_idx))
  THEN decrease_sift(swap_node(T, node_idx, parent_idx), K, parent_idx,
                     parent(parent_idx))
  ELSE T

\* mutant: the check of new_key against the node's key is missing
decrease_key_unchecked(T, K, n, new_key) ==
  LET node_idx == find_node(T, n)
      K2 == [K EXCEPT ![n] = new_key]
  IN  IF node_idx = 0
      THEN [tree_list |-> T, timestamp |-> K, err |-> "NotFound"]
      ELSE [tree_list |-> decrease_sift(T, K2, node_idx, parent(node_idx)),
            timestamp |-> K2, err |-> "none"]

\* mutant: the node is looked up by key (equality of keys), not by identity
decrease_key_by_key(T, K, n, new_key) ==
  LET hits == {i \in 1..Len(T) : K[T[i]] = K[n]}
      node_idx == IF hits = {} THEN 0 ELSE CHOOSE i \in hits : \A j \in hits : j <= i
      K2 == IF node_idx = 0 THEN K ELSE [K EXCEPT ![T[node_idx]] = new_key]
  IN  IF new_key > K[n]
      THEN [tree_list |-> T, timestamp |-> K, err |-> "InvalidKey"]
      ELSE IF node_idx = 0
           THEN [tree_list |-> T, timestamp |-> K, err |-> "NotFound"]
           ELSE [tree_list |-> decrease_sift(T, K2, node_idx, parent(node_idx)),
                 timestamp |-> K2, err |-> "none"]

\* mutant: the key is set and the node stays where it is
decrease_key_no_sift(T, K, n, new_key) ==
  IF new_key > K[n]
  THEN [tree_list |-> T, timestamp |-> K, err |-> "InvalidKey"]
  ELSE IF find_node(T, n) = 0
       THEN [tree_list |-> T, timestamp |-> K, err |-> "NotFound"]
       ELSE [tree_list |-> T, timestamp |-> [K EXCEPT ![n] = new_key], err |-> "none"]

\* decrease_key(node, new_key): [tree_list, timestamp, err]
decrease_key(T, K, n, new_key) ==
  IF new_key > K[n]
  THEN [tree_list |-> T, timestamp |-> K, err |-> "InvalidKey"]
  ELSE LET node_idx == find_node(T, n)
       IN  IF node_idx = 0
           THEN [tree_list |-> T, timestamp |-> K, err |-> "NotFound"]
           ELSE LET K2 == [K EXCEPT ![n] = new_key]
                IN  [tree_list |-> decrease_sift(T, K2, node_idx, parent(node_idx)),
                     timestamp |-> K2, err |-> "none"]

(***************************************************************************)
(* Scheduler state as one record, so that the methods below are functions  *)
(* from state to state and can call each other as the code does.           *)
(***************************************************************************)
Cur ==
  [ _id_seed |-> _id_seed, _jobs_done |-> _jobs_done,
    _jobs_cancelled |-> _jobs_cancelled,
    _pending_jobs_cancelled |-> _pending_jobs_cancelled,
    tree_list |-> tree_list, timestamp |-> timestamp,
    _scheduled_jobs |-> _scheduled_jobs, _pending_jobs |-> _pending_jobs,
    _pending_job_handle |-> _pending_job_handle, timers |-> timers,
    now |-> now, ran |-> ran, cancelled |-> cancelled, last |-> last,
    hist |-> hist ]

Commit(S) ==
  /\ _id_seed' = S._id_seed
  /\ _jobs_done' = S._jobs_done
  /\ _jobs_cancelled' = S._jobs_cancelled
  /\ _pending_jobs_cancelled' = S._pending_jobs_cancelled
  /\ tree_list' = S.tree_list
  /\ timestamp' = S.timestamp
  /\ _scheduled_jobs' = S._scheduled_jobs
  /\ _pending_jobs' = S._pending_jobs
  /\ _pending_job_handle' = S._pending_job_handle
  /\ timers' = S.timers
  /\ now' = S.now
  /\ ran' = S.ran
  /\ cancelled' = S.cancelled
  /\ last' = S.last
  /\ hist' = S.hist

\* the record kept in `last` for an operation that has just started: its name,
\* its argument, how it went (what the task did for exc_scheduled_job, the branch
\* taken for cancel_job), the exception that left it and the value it returned
Op(name, arg, how) ==
  [ op |-> name, arg |-> arg, how |-> how, err |-> "none", ret |-> 0 ]

Begin(name, arg, how) == [Cur EXCEPT !.last = Op(name, arg, how)]

\* an exception leaves the method: nothing after the throwing statement runs
throw(S, e) == [S EXCEPT !.last.err = e]

\* mutant: Map.delete leaves the entry in place
map_delete_forgotten(m, k) == m

map_delete(m, k) == [x \in DOMAIN m \ {k} |-> m[x]]

\* a PendingJob returned by extract_min and dropped by the scheduler is garbage:
\* nothing refers to it any more, so it leaves the object store
unreferenced(K, ref) == map_delete(K, ref)

map_set(m, k, v) == [x \in DOMAIN m \cup {k} |-> IF x = k THEN v ELSE m[x]]

(***************************************************************************)
(* Platform timer (Node's timers module).  setTimeout returns a new        *)
(* Timeout object, distinct from every Timeout still outstanding.  The     *)
(* Timeout of a job's closure is named by the job's id (a positive         *)
(* number); the Timeouts of the pump are named -1, -2, ...                 *)
(***************************************************************************)
new_pump_handle(S) ==
  LET U == {t.h : t \in S.timers}
      free == {k \in 1..(Cardinality(U) + 1) : (0 - k) \notin U}
  IN  0 - (CHOOSE k \in free : \A g \in free : k <= g)

\* setTimeout(callback, delay): a non-positive delay fires as soon as possible
setTimeout(S, h, kind, job, delay) ==
  [S EXCEPT !.timers = @ \cup {[h |-> h, kind |-> kind, job |-> job, delay |-> delay,
                                due |-> S.now + (IF delay > 0 THEN delay ELSE 0)]}]

\* mutant: the timer is not cancelled
clearTimeout_forgotten(S, h) == S

\* clearTimeout(handle): no effect for null, undefined or a timer that has fired
clearTimeout(S, h) == [S EXCEPT !.timers = {t \in @ : t.h # h}]

(***************************************************************************)
(* Scheduler                                                               *)
(***************************************************************************)
scheduled_job_cnt(S) == Cardinality(DOMAIN S._scheduled_jobs)

\* mutant: the Job gets the id after the one it was created for
Job_renumbered(id, milisec) == [id |-> id + 1, ref |-> NULL]

\* new Job(id, milisec, fn); _milisec is never read again and is left out
Job(id, milisec) == [id |-> id, ref |-> NULL]

\* mutant: the job is stored but its timer is never armed
enqueu_job_unarmed(S, job, delay) ==
  [S EXCEPT !._scheduled_jobs = map_set(@, job.id, [job EXCEPT !.ref = job.id])]

enqueu_job(S, job, delay) ==
  LET timeout_obj == job.id
      S1 == setTimeout(S, timeout_obj, "job", job.id, delay)
  IN  [S1 EXCEPT !._scheduled_jobs =
                    map_set(@, job.id, [job EXCEPT !.ref = timeout_obj])]

\* mutant: cancelling an armed job also counts a pending cancellation
returned_from_cancel_double(S, job_id, branch) ==
  [S EXCEPT !.cancelled = IF job_id \in 1..(S._id_seed - 1) THEN @ \cup {job_id} ELSE @,
            !.last.how = IF S.last.op = "cancel_job" THEN branch ELSE @,
            !._pending_jobs_cancelled = IF branch = "armed" THEN @ + 1 ELSE @]

\* mutant: every call of cancel_job counts a pending cancellation
returned_from_cancel_counted(S, job_id, branch) ==
  [S EXCEPT !.cancelled = IF job_id \in 1..(S._id_seed - 1) THEN @ \cup {job_id} ELSE @,
            !.last.how = IF S.last.op = "cancel_job" THEN branch ELSE @,
            !._pending_jobs_cancelled = IF branch = "noop" THEN @ + 1 ELSE @]

\* cancel_job has returned for job_id: history only
returned_from_cancel(S, job_id, branch) ==
  [S EXCEPT !.cancelled = IF job_id \in 1..(S._id_seed - 1) THEN @ \cup {job_id} ELSE @,
            !.last.how = IF S.last.op = "cancel_job" THEN branch ELSE @]

cancel_job(S, job_id) ==
  IF job_id \in DOMAIN S._scheduled_jobs /\ S._scheduled_jobs[job_id].ref # NULL
  THEN LET job == S._scheduled_jobs[job_id]
           S1 == [S EXCEPT !._scheduled_jobs = map_delete(@, job.id)]
           S2 == clearTimeout(S1, job.ref)
           S3 == [S2 EXCEPT !._jobs_cancelled = @ + 1]
       IN  returned_from_cancel(S3, job_id, "armed")
  ELSE IF job_id \in DOMAIN S._pending_jobs
  THEN LET pending_job == S._pending_jobs[job_id]
           dk == decrease_key(S.tree_list, S.timestamp, pending_job, 0)
           S1 == [S EXCEPT !.tree_list = dk.tree_list, !.timestamp = dk.timestamp]
           em == extract_min(dk.tree_list, dk.timestamp)
       IN  IF dk.err # "none" THEN throw(S1, dk.err)
           ELSE IF em.err # "none" THEN throw(S1, em.err)
           ELSE returned_from_cancel(
                  [S EXCEPT !.tree_list = em.tree_list,
                            !.timestamp = unreferenced(dk.timestamp, em.ret),
                            !._pending_jobs = map_delete(@, pending_job),
                            !._pending_jobs_cancelled = @ + 1],
                  job_id, "pending")
  ELSE returned_from_cancel(S, job_id, "noop")

\* mutant: the exception of the task is caught and the job completes
exc_scheduled_job_catches(S, id, cb) ==
  LET S1 == [S EXCEPT !.ran[id] = @ + 1]
      S2 == IF cb = "cancel" THEN cancel_job(S1, id) ELSE S1
  IN  [S2 EXCEPT !._scheduled_jobs = map_delete(@, id),
                 !._jobs_done = @ + 1]

\* mutant: this._jobs_done++ is missing
exc_scheduled_job_not_counted(S, id, cb) ==
  LET S1 == [S EXCEPT !.ran[id] = @ + 1]
      S2 == IF cb = "cancel" THEN cancel_job(S1, id) ELSE S1
  IN  IF cb = "throw" THEN throw(S1, "callback")
      ELSE [S2 EXCEPT !._scheduled_jobs = map_delete(@, id)]

\* exc_scheduled_job(job); cb is what the job's task does when invoked:
\* "return", "throw", or "cancel" (the task cancels its own job, then returns)
exc_scheduled_job(S, id, cb) ==
  LET S1 == [S EXCEPT !.ran[id] = @ + 1]
      S2 == IF cb = "cancel" THEN cancel_job(S1, id) ELSE S1
  IN  IF cb = "throw" THEN throw(S1, "callback")
      ELSE [S2 EXCEPT !._scheduled_jobs = map_delete(@, id),
                      !._jobs_done = @ + 1]

\* the promotion loop of the pump callback: [st, delay_after_ofs]
RECURSIVE pump_loop(_, _, _, _)
\* mutant: an `if` in place of the `while`: only the queue minimum is promoted
pump_loop_once(S, cur_timestamp, earliest_job, delay_after_ofs) ==
  IF delay_after_ofs <= _max_delay
  THEN LET em == extract_min(S.tree_list, S.timestamp)
           S1 == [S EXCEPT !.tree_list = em.tree_list,
                           !.timestamp = unreferenced(@, em.ret),
                           !._pending_jobs = map_delete(@, earliest_job)]
           S2 == enqueu_job(S1, Job(earliest_job, delay_after_ofs), delay_after_ofs)
       IN  IF heap_size(S2.tree_list) < 1
           THEN [st |-> S2, delay_after_ofs |-> delay_after_ofs]
           ELSE [st |-> S2, delay_after_ofs |->
                   S2.timestamp[min_node(S2.tree_list)] - cur_timestamp]
  ELSE [st |-> S, delay_after_ofs |-> delay_after_ofs]

pump_loop(S, cur_timestamp, earliest_job, delay_after_ofs) ==
  IF delay_after_ofs <= _max_delay
  THEN LET em == extract_min(S.tree_list, S.timestamp)
           S1 == [S EXCEPT !.tree_list = em.tree_list,
                           !.timestamp = unreferenced(@, em.ret),
                           !._pending_jobs = map_delete(@, earliest_job)]
           S2 == enqueu_job(S1, Job(earliest_job, delay_after_ofs), delay_after_ofs)
       IN  IF heap_size(S2.tree_list) < 1
           THEN [st |-> S2, delay_after_ofs |-> delay_after_ofs]
           ELSE LET next_job == min_node(S2.tree_list)
                IN  pump_loop(S2, cur_timestamp, next_job,
                              S2.timestamp[next_job] - cur_timestamp)
  ELSE [st |-> S, delay_after_ofs |-> delay_after_ofs]

\* mutant: the pump is never armed
try_schedule_pending_job_unarmed(S, h, delay_ofs) == S

\* try_schedule_pending_job(delay_ofs): arms the pump, leaves the handle to the caller
try_schedule_pending_job(S, h, delay_ofs) == setTimeout(S, h, "pump", 0, delay_ofs)

\* Math.min(next_delay - this._max_delay, this._max_delay) of the pump callback
next_delay_ofs(next_delay) == Min(next_delay - _max_delay, _max_delay)

\* the callback armed by try_schedule_pending_job
pump_callback(S) ==
  LET cur_timestamp == S.now
      earliest_job == min_node(S.tree_list)
  IN  IF earliest_job = NULL
      THEN throw(S, "TypeError")
      ELSE LET r == pump_loop(S, cur_timestamp, earliest_job,
                              S.timestamp[earliest_job] - cur_timestamp)
               S1 == r.st
           IN  IF heap_size(S1.tree_list) > 0
               THEN LET next_delay == r.delay_after_ofs
                        S2 == clearTimeout(S1, S1._pending_job_handle)
                        h == new_pump_handle(S2)
                        S3 == try_schedule_pending_job(S2, h, next_delay_ofs(next_delay))
                    IN  [S3 EXCEPT !._pending_job_handle = h]
               ELSE [S1 EXCEPT !._pending_job_handle = NULL]

\* mutant: the Math.min that caps the pump delay is missing
delay_ofs_uncapped(delay) == delay - _max_delay

\* Math.min(delay - this._max_delay, this._max_delay) of schedule_in_milisec
delay_ofs(delay) == Min(delay - _max_delay, _max_delay)

schedule_in_milisec(S, delay) ==
  IF delay > _max_delay
  THEN LET cur_timestamp == S.now
           pending_job == S._id_seed
           S1 == [S EXCEPT !.timestamp = map_set(@, pending_job, cur_timestamp + delay),
                           !._id_seed = @ + 1]
           S2 == [S1 EXCEPT !.tree_list = insert(@, S1.timestamp, pending_job),
                            !._pending_jobs = map_set(@, pending_job, pending_job)]
           S3 == clearTimeout(S2, S2._pending_job_handle)
           h == new_pump_handle(S3)
           S4 == try_schedule_pending_job(S3, h, delay_ofs(delay))
       IN  [S4 EXCEPT !._pending_job_handle = h, !.last.ret = pending_job]
  ELSE LET job == Job(S._id_seed, delay)
           S1 == [S EXCEPT !._id_seed = @ + 1]
           S2 == enqueu_job(S1, job, delay)
       IN  [S2 EXCEPT !.last.ret = job.id]

schedule_at_date(S, date) ==
  LET desired_timestamp == date
      cur_timestamp == S.now
  IN  IF desired_timestamp < cur_timestamp
      THEN [S EXCEPT !.last.ret = ERROR_JOB_ID]
      ELSE schedule_in_milisec(S, desired_timestamp - cur_timestamp)

RECURSIVE destroy_loop(_, _)
destroy_loop(S, keys) ==
  IF keys = {} THEN S
  ELSE LET key == CHOOSE k \in keys : \A j \in keys : k <= j
       IN  destroy_loop(cancel_job(S, key), keys \ {key})

\* mutant: clearTimeout(this._pending_job_handle) is missing
_destroy_jobs_only(S) == destroy_loop(S, DOMAIN S._scheduled_jobs)

_destroy(S) ==
  LET S1 == destroy_loop(S, DOMAIN S._scheduled_jobs)
  IN  clearTimeout(S1, S1._pending_job_handle)

(***************************************************************************)
(* The scheduler as a state machine: caller invocations, timer firings     *)
(* and the passing of time, one at a time (one logical thread).            *)
(***************************************************************************)
Init ==
  /\ _id_seed = 1
  /\ _jobs_done = 0
  /\ _jobs_cancelled = 0
  /\ _pending_jobs_cancelled = 0
  /\ tree_list = << >>
  /\ timestamp = << >>
  /\ _scheduled_jobs = << >>
  /\ _pending_jobs = << >>
  /\ _pending_job_handle = NULL
  /\ timers = {}
  /\ now = StartTime
  /\ ran = [i \in 1..MaxJobs |-> 0]
  /\ cancelled = {}
  /\ last = Op("init", 0, "")
  /\ hist = [at |-> 0, delay |-> 0, pumps |-> 0]
  /\ pq_phase = "insert"
  /\ pq_in = << >>
  /\ pq_out = << >>

ScheduleInMilisec(delay) ==
  /\ _id_seed <= MaxJobs
  /\ now + delay <= MaxTime
  /\ Commit(schedule_in_milisec(Begin("schedule_in_milisec", delay, ""), delay))
  /\ UNCHANGED << pq_phase, pq_in, pq_out >>

ScheduleAtDate(date) ==
  /\ _id_seed <= MaxJobs
  /\ date < now \/ (date - now) \in Delays
  /\ Commit(schedule_at_date(Begin("schedule_at_date", date, ""), date))
  /\ UNCHANGED << pq_phase, pq_in, pq_out >>

CancelJob(job_id) ==
  /\ Commit(cancel_job(Begin("cancel_job", job_id, ""), job_id))
  /\ UNCHANGED << pq_phase, pq_in, pq_out >>

Destroy ==
  /\ Commit(_destroy(Begin("_destroy", 0, "")))
  /\ UNCHANGED << pq_phase, pq_in, pq_out >>

\* the platform fires a due job timer: the closure calls exc_scheduled_job(job)
JobTimerFire(t, cb) ==
  /\ t \in timers /\ t.kind = "job" /\ t.due <= now
  /\ Commit(exc_scheduled_job(
              [Begin("exc_scheduled_job", t.job, cb) EXCEPT !.timers = @ \ {t}],
              t.job, cb))
  /\ UNCHANGED << pq_phase, pq_in, pq_out >>

\* the platform fires a due pump timer
PumpTimerFire(t) ==
  /\ t \in timers /\ t.kind = "pump" /\ t.due <= now
  /\ Commit(pump_callback([Begin("pump", 0, "") EXCEPT !.timers = @ \ {t}]))
  /\ UNCHANGED << pq_phase, pq_in, pq_out >>

Tick ==
  /\ now < MaxTime
  /\ Commit([Begin("tick", 0, "") EXCEPT !.now = @ + 1])
  /\ UNCHANGED << pq_phase, pq_in, pq_out >>

Next ==
  \/ \E delay \in Delays : ScheduleInMilisec(delay)
  \/ \E date \in (now - 1)..MaxTime : ScheduleAtDate(date)
  \/ \E job_id \in 0..MaxJobs : CancelJob(job_id)
  \/ Destroy
  \/ \E t \in timers, cb \in {"return", "throw", "cancel"} : JobTimerFire(t, cb)
  \/ \E t \in timers : PumpTimerFire(t)
  \/ Tick

Spec == Init /\ [][Next]_vars

(***************************************************************************)
(* The scheduler when _destroy is never called, with the platform's        *)
(* guarantees: the clock advances, and a timer that is due and not         *)
(* cancelled fires.                                                        *)
(***************************************************************************)
NextLive ==
  \/ \E delay \in Delays : _id_seed <= MaxLiveJobs /\ ScheduleInMilisec(delay)
  \/ \E date \in (now - 1)..MaxTime : _id_seed <= MaxLiveJobs /\ ScheduleAtDate(date)
  \/ \E job_id \in 0..MaxLiveJobs : CancelJob(job_id)
  \/ \E t \in timers, cb \in {"return", "throw", "cancel"} : JobTimerFire(t, cb)
  \/ \E t \in timers : PumpTimerFire(t)
  \/ Tick

FireJob(id) ==
  \E t \in timers, cb \in {"return", "throw", "cancel"} :
    t.job = id /\ JobTimerFire(t, cb)

FirePump == \E t \in timers : PumpTimerFire(t)

\* a pump timer is due: FirePump is enabled (firing removes the timer, so the
\* step is never a stuttering step)
PumpDue == \E t \in timers : t.kind = "pump" /\ t.due <= now

\* WF_vars(FirePump), with ENABLED <<FirePump>>_vars written out as PumpDue
PumpFairness == []<>(~PumpDue) \/ []<><<FirePump>>_vars

SpecLive ==
  /\ Init /\ [][NextLive]_vars
  /\ WF_vars(Tick)
  /\ PumpFairness
  /\ \A id \in 1..MaxLiveJobs : WF_vars(FireJob(id))

(***************************************************************************)
(* The priority queue on its own, driven as the unit tests drive it: any   *)
(* sequence of insert / extract_min / decrease_key on objects whose keys   *)
(* are arbitrary (duplicates included).  The caller keeps its references,  *)
(* so an extracted object stays in the object store.                       *)
(***************************************************************************)
SchedulerVars ==
  << _id_seed, _jobs_done, _jobs_cancelled, _pending_jobs_cancelled,
     _scheduled_jobs, _pending_jobs, _pending_job_handle, timers, now, ran,
     cancelled, hist >>

PQInsert(k) ==
  LET e == Cardinality(DOMAIN timestamp) + 1
      K == map_set(timestamp, e, k)
  IN  /\ e <= MaxElems
      /\ timestamp' = K
      /\ tree_list' = insert(tree_list, K, e)
      /\ last' = Op("insert", e, "")
      /\ UNCHANGED << SchedulerVars, pq_phase, pq_in, pq_out >>

PQExtractMin ==
  LET r == extract_min(tree_list, timestamp)
  IN  /\ tree_list' = r.tree_list
      /\ last' = [Op("extract_min", 0, "") EXCEPT !.err = r.err, !.ret = r.ret]
      /\ UNCHANGED << timestamp, SchedulerVars, pq_phase, pq_in, pq_out >>

\* pq.decrease_key(node, k) on a node allocated earlier, in the queue or
\* extracted from it; `how` records how k compares with the node's key
PQDecreaseKey(e, k) ==
  LET r == decrease_key(tree_list, timestamp, e, k)
      how == IF k < timestamp[e] THEN "lower"
             ELSE IF k = timestamp[e] THEN "equal" ELSE "higher"
  IN  /\ e \in DOMAIN timestamp
      /\ tree_list' = r.tree_list
      /\ timestamp' = r.timestamp
      /\ last' = [Op("decrease_key", e, how) EXCEPT !.err = r.err]
      /\ UNCHANGED << SchedulerVars, pq_phase, pq_in, pq_out >>

\* pq.min_node(): returns tree_list[0], which is undefined (NULL) for an empty
\* array; the method has no throw statement
PQMinNode ==
  /\ last' = [Op("min_node", 0, "") EXCEPT !.ret = min_node(tree_list)]
  /\ UNCHANGED << tree_list, timestamp, SchedulerVars, pq_phase, pq_in, pq_out >>

PQNext ==
  \/ \E k \in 0..MaxKey : PQInsert(k)
  \/ PQExtractMin
  \/ \E e \in 1..MaxElems, k \in 0..MaxKey : PQDecreaseKey(e, k)
  \/ PQMinNode

SpecPQ == Init /\ [][PQNext]_vars

(***************************************************************************)
(* The scheduler while it is in use: no _destroy.                          *)
(***************************************************************************)
NextRunning ==
  \/ \E delay \in Delays : ScheduleInMilisec(delay)
  \/ \E date \in (now - 1)..MaxTime : ScheduleAtDate(date)
  \/ \E job_id \in 0..MaxJobs : CancelJob(job_id)
  \/ \E t \in timers, cb \in {"return", "throw", "cancel"} : JobTimerFire(t, cb)
  \/ \E t \in timers : PumpTimerFire(t)
  \/ Tick

SpecRunning == Init /\ [][NextRunning]_vars

(***************************************************************************)
(* Well-behaved tasks: every task returns normally and does not call the   *)
(* scheduler.                                                              *)
(***************************************************************************)
NextReturn ==
  \/ \E delay \in Delays : ScheduleInMilisec(delay)
  \/ \E date \in (now - 1)..MaxTime : ScheduleAtDate(date)
  \/ \E job_id \in 0..MaxJobs : CancelJob(job_id)
  \/ Destroy
  \/ \E t \in timers : JobTimerFire(t, "return")
  \/ \E t \in timers : PumpTimerFire(t)
  \/ Tick

SpecReturn == Init /\ [][NextReturn]_vars

(***************************************************************************)
(* A timer that fires exactly on time: the clock does not advance while a  *)
(* timer is due.  The caller only schedules; tasks return normally.  hist  *)
(* keeps the time and delay of the first schedule call and counts the pump *)
(* firings.                                                                *)
(***************************************************************************)
OnTimeSchedule(delay) ==
  /\ _id_seed <= MaxJobs
  /\ now + delay <= MaxTarget
  /\ Commit([schedule_in_milisec(Begin("schedule_in_milisec", delay, ""), delay)
               EXCEPT !.hist = IF _id_seed = 1
                               THEN [at |-> now, delay |-> delay, pumps |-> 0]
                               ELSE @])
  /\ UNCHANGED << pq_phase, pq_in, pq_out >>

OnTimeJobFire(t) == JobTimerFire(t, "return")

OnTimePumpFire(t) ==
  /\ t \in timers /\ t.kind = "pump" /\ t.due <= now
  /\ Commit([pump_callback([Begin("pump", 0, "") EXCEPT !.timers = @ \ {t}])
               EXCEPT !.hist.pumps = @ + 1])
  /\ UNCHANGED << pq_phase, pq_in, pq_out >>

OnTimeTick ==
  /\ \A t \in timers : t.due > now
  /\ Tick

NextOnTime ==
  \/ \E delay \in OnTimeDelays : OnTimeSchedule(delay)
  \/ \E t \in timers : OnTimeJobFire(t)
  \/ \E t \in timers : OnTimePumpFire(t)
  \/ OnTimeTick

SpecOnTime == Init /\ [][NextOnTime]_vars

(***************************************************************************)
(* Heap sort through the queue: N inserts into an empty queue, then N      *)
(* extract_min calls (tests 'Retrieve min from ... nodes').                *)
(***************************************************************************)
SortInsert(k) ==
  LET e == Cardinality(DOMAIN timestamp) + 1
      K == map_set(timestamp, e, k)
  IN  /\ pq_phase = "insert"
      /\ e <= MaxElems
      /\ timestamp' = K
      /\ tree_list' = insert(tree_list, K, e)
      /\ pq_in' = Append(pq_in, k)
      /\ last' = Op("insert", e, "")
      /\ UNCHANGED << SchedulerVars, pq_phase, pq_out >>

SortExtract ==
  LET r == extract_min(tree_list, timestamp)
  IN  /\ Len(pq_out) < Len(pq_in)
      /\ pq_phase' = "extract"
      /\ tree_list' = r.tree_list
      /\ pq_out' = IF r.err = "none" THEN Append(pq_out, timestamp[r.ret]) ELSE pq_out
      /\ last' = [Op("extract_min", 0, "") EXCEPT !.err = r.err, !.ret = r.ret]
      /\ UNCHANGED << timestamp, SchedulerVars, pq_in >>

SortNext ==
  \/ \E k \in 0..MaxKey : SortInsert(k)
  \/ SortExtract

SpecSort == Init /\ [][SortNext]_vars

(***************************************************************************)
(* Properties                                                              *)
(***************************************************************************)
key(e) == timestamp[e]

\* every non-root node's key is >= its parent's key
HeapProperty(T, K) ==
  \A i \in 2..Len(T) : K[T[i]] >= K[T[parent(i)]]

\* C3: min-heap invariant. In every state reached by any sequence of insert,
\* extract_min and decrease_key calls (duplicate keys allowed), every non-root
\* node i of the queue has key(node i) >= key(node floor(i/2)).
C3_HeapInvariant ==
  \A i \in 2..heap_size(tree_list) :
    key(node(tree_list, i)) >= key(node(tree_list, i \div 2))

\* a heap of three or more nodes with a duplicate key, just reordered by a
\* decrease_key that moved a node up
C3_Witness ==
  /\ last.op = "decrease_key" /\ last.err = "none"
  /\ heap_size(tree_list) >= 3
  /\ tree_list[1] = last.arg
  /\ \E i, j \in 1..heap_size(tree_list) : i # j /\ key(tree_list[i]) = key(tree_list[j])

\* the keys of a sequence in non-decreasing order (insertion sort)
RECURSIVE SortedKeys(_)
SortedKeys(q) ==
  IF q = << >> THEN << >>
  ELSE LET rest == SortedKeys(Tail(q))
           x == Head(q)
           n == Cardinality({i \in 1..Len(rest) : rest[i] < x})
       IN  SubSeq(rest, 1, n) \o << x >> \o SubSeq(rest, n + 1, Len(rest))

\* C4: sortedness. After N inserts into an empty queue, the keys returned by the
\* extract_min calls so far are the first keys of the sorted input; after N
\* extract_min calls they are the sorted input and the queue is empty.
C4_Sortedness ==
  /\ pq_out = SubSeq(SortedKeys(pq_in), 1, Len(pq_out))
  /\ (pq_phase = "extract" /\ Len(pq_out) = Len(pq_in)) => tree_list = << >>

\* all N = MaxElems elements extracted, keys with a duplicate, inserted out of order
C4_Witness ==
  /\ pq_phase = "extract"
  /\ Len(pq_in) >= 4 /\ Len(pq_out) = Len(pq_in)
  /\ pq_in # pq_out
  /\ \E i, j \in 1..Len(pq_in) : i # j /\ pq_in[i] = pq_in[j]
  /\ \E i, j \in 1..Len(pq_in) : pq_in[i] # pq_in[j]

(***************************************************************************)
(* Scheduler properties                                                    *)
(***************************************************************************)
activeCount == Cardinality(DOMAIN _scheduled_jobs)

pendingIds == DOMAIN _pending_jobs

queued(T) == {T[i] : i \in 1..Len(T)}

pumpTimers == {t \in timers : t.kind = "pump"}

jobTimers == {t \in timers : t.kind = "job"}

C2_NoRunAfterCancel ==
  [][\A id \in cancelled : ran'[id] = ran[id]]_vars

\* one job cancelled while armed and one cancelled while pending, neither ever
\* run, at the end of time with every timer fired
C2_Witness ==
  /\ _jobs_cancelled >= 1 /\ _pending_jobs_cancelled >= 1
  /\ Cardinality({id \in cancelled : ran[id] = 0}) >= 2
  /\ \E id \in 1..MaxJobs : ran[id] = 1
  /\ now = MaxTime /\ timers = {}

\* C5: routing of schedule_in_milisec(d). d <= _max_delay: the job is armed with
\* delay d, activeCount grows by 1, the pending queue and _pending_jobs are
\* unchanged. d > _max_delay: the job is parked, the pending queue and
\* _pending_jobs grow by exactly that job, _scheduled_jobs is unchanged and the
\* pump handle is an outstanding pump timer.
C5_Routing ==
  [][last'.op = "schedule_in_milisec" =>
       LET d == last'.arg
           id == _id_seed
       IN  IF d <= _max_delay
           THEN /\ activeCount' = activeCount + 1
                /\ id \in DOMAIN _scheduled_jobs'
                /\ \E t \in jobTimers' : t.job = id /\ t.delay = d
                /\ tree_list' = tree_list
                /\ _pending_jobs' = _pending_jobs
                /\ pumpTimers' = pumpTimers
           ELSE /\ Len(tree_list') = Len(tree_list) + 1
                /\ queued(tree_list') = queued(tree_list) \cup {id}
                /\ pendingIds' = pendingIds \cup {id}
                /\ Cardinality(pendingIds') = Cardinality(pendingIds) + 1
                /\ timestamp'[id] = now + d
                /\ _scheduled_jobs' = _scheduled_jobs
                /\ jobTimers' = jobTimers
                /\ \E t \in pumpTimers' : t.h = _pending_job_handle'
  ]_vars

\* a job has just been parked while the job scheduled before it, with delay
\* exactly _max_delay, is armed
C5_Witness ==
  /\ last.op = "schedule_in_milisec" /\ last.arg > _max_delay
  /\ last.ret \in pendingIds
  /\ \E t \in jobTimers : t.job = last.ret - 1 /\ t.delay = _max_delay
  /\ Len(tree_list) >= 2

C7_DelayWithinMax ==
  \A t \in timers : t.delay <= _max_delay

\* the pump has just promoted a job with delay exactly _max_delay and re-armed
\* itself, next to a job that was armed directly
C7_Witness ==
  /\ last.op = "pump"
  /\ \E t \in jobTimers : t.delay = _max_delay /\ t.due = now + _max_delay
  /\ \E t \in jobTimers : t.due # now + t.delay
  /\ \E t \in pumpTimers : t.delay = _max_delay /\ t.due = now + _max_delay

\* C8: at most one pump timer is outstanding.
C8_OnePumpTimer ==
  Cardinality(pumpTimers) <= 1

\* a third job has just been parked, replacing the pump armed for the others
C8_Witness ==
  /\ last.op = "schedule_in_milisec" /\ last.arg > _max_delay
  /\ Len(tree_list) >= 3
  /\ Cardinality(pumpTimers) = 1

\* C9: cancel_job(id) of a pending job removes exactly that PendingJob: the
\* pending queue and _pending_jobs hold exactly the other pending jobs, each
\* with its timestamp unchanged, and the heap property holds.
C9_CancelPending ==
  [][(last'.op = "cancel_job" /\ last'.arg \in pendingIds
        /\ last'.arg \notin DOMAIN _scheduled_jobs) =>
       LET id == last'.arg
       IN  /\ last'.err = "none"
           /\ Len(tree_list') = Len(tree_list) - 1
           /\ queued(tree_list') = queued(tree_list) \ {id}
           /\ _pending_jobs' = map_delete(_pending_jobs, id)
           /\ \A j \in pendingIds' : timestamp'[j] = timestamp[j]
           /\ HeapProperty(tree_list', timestamp')
  ]_vars

\* a pending job that was not the queue minimum has just been cancelled and two
\* other jobs are still pending
C9_Witness ==
  /\ last.op = "cancel_job" /\ last.how = "pending"
  /\ Len(tree_list) >= 2
  /\ \E j \in pendingIds : j > last.arg /\ timestamp[j] < now + _max_delay

\* C10: cancel_job(id) on an id that is in neither map (unknown, completed or
\* already cancelled) returns normally and changes nothing: maps, queue,
\* counters, timers and the pump handle.
C10_CancelNoop ==
  [][(last'.op = "cancel_job" /\ last'.arg \notin DOMAIN _scheduled_jobs
        /\ last'.arg \notin pendingIds) =>
       /\ last'.err = "none"
       /\ UNCHANGED << _id_seed, _jobs_done, _jobs_cancelled,
                       _pending_jobs_cancelled, tree_list, timestamp,
                       _scheduled_jobs, _pending_jobs, _pending_job_handle,
                       timers, now, ran >>
  ]_vars

\* a job cancelled earlier without ever running is cancelled again, while a
\* job is armed, a job is pending and the pump is outstanding
C10_Witness ==
  /\ last.op = "cancel_job" /\ last.how = "noop"
  /\ last.arg \in 1..(_id_seed - 1) /\ ran[last.arg] = 0
  /\ _jobs_cancelled + _pending_jobs_cancelled = 1
  /\ activeCount = 1 /\ Len(tree_list) = 1 /\ Cardinality(pumpTimers) = 1

\* C11: decrease_key(x, k) with x in the queue and k < x.key(): the call returns
\* normally, the key of x is k, every other element's key is unchanged, the
\* queue holds the same elements as before and the heap property holds.
C11_DecreaseKey ==
  [][\A e \in 1..MaxElems, k \in 0..MaxKey :
       (PQDecreaseKey(e, k) /\ e \in queued(tree_list) /\ k < timestamp[e]) =>
         /\ last'.err = "none"
         /\ timestamp'[e] = k
         /\ timestamp' = [timestamp EXCEPT ![e] = k]
         /\ queued(tree_list') = queued(tree_list)
         /\ Len(tree_list') = Len(tree_list)
         /\ HeapProperty(tree_list', timestamp')
  ]_vars

\* the key of the last of four nodes has just been lowered below every other
\* key of a full queue, and the node is now the root
C11_Witness ==
  /\ last.op = "decrease_key" /\ last.how = "lower" /\ last.err = "none"
  /\ Len(tree_list) = MaxElems /\ last.arg = MaxElems
  /\ tree_list[1] = last.arg
  /\ \A i \in 2..Len(tree_list) : timestamp[tree_list[i]] > timestamp[last.arg]

\* C12: decrease_key(x, k) with k > x.key() fails with InvalidKey and leaves the
\* backing sequence and every element's key, the key of x included, as before.
C12_InvalidKey ==
  [][\A e \in 1..MaxElems, k \in 0..MaxKey :
       (PQDecreaseKey(e, k) /\ k > timestamp[e]) =>
         /\ last'.err = "InvalidKey"
         /\ tree_list' = tree_list
         /\ timestamp' = timestamp
  ]_vars

\* decrease_key with a larger key has just failed on a node that is in a
\* queue of at least three nodes, and not at the root
C12_Witness ==
  /\ last.op = "decrease_key" /\ last.how = "higher" /\ last.err = "InvalidKey"
  /\ Len(tree_list) >= 3
  /\ \E i \in 2..Len(tree_list) : tree_list[i] = last.arg

\* C13: decrease_key(x, k) with k <= x.key() and x not in the queue by identity
\* fails with NotFound and changes neither the queue nor the key of x; also
\* when the queue holds another element with the same key and when x was
\* extracted from the queue earlier.
C13_NotFound ==
  [][\A e \in 1..MaxElems, k \in 0..MaxKey :
       (PQDecreaseKey(e, k) /\ k <= timestamp[e] /\ e \notin queued(tree_list)) =>
         /\ last'.err = "NotFound"
         /\ tree_list' = tree_list
         /\ timestamp' = timestamp
  ]_vars

\* decrease_key with a lower key has just failed on a node that was extracted
\* earlier, while the queue holds another node with the same key
C13_Witness ==
  /\ last.op = "decrease_key" /\ last.how = "lower" /\ last.err = "NotFound"
  /\ last.arg \in DOMAIN timestamp /\ last.arg \notin queued(tree_list)
  /\ \E x \in queued(tree_list) : timestamp[x] = timestamp[last.arg]

\* C14 as stated: min_node() on a queue of size 0 fails with EmptyQueue; on a
\* non-empty queue it returns an element of minimum key (and leaves the queue
\* unchanged).
C14_AsStated ==
  last.op = "min_node" =>
    IF heap_size(tree_list) = 0
    THEN last.err = "EmptyQueue"
    ELSE /\ last.err = "none"
         /\ last.ret \in queued(tree_list)
         /\ \A x \in queued(tree_list) : timestamp[last.ret] <= timestamp[x]

\* C15: extract_min() fails with EmptyQueue, changing nothing, exactly when the
\* queue is empty; otherwise it returns an element whose key is <= every key in
\* the queue, removes that element and no other, and restores the heap property.
C15_ExtractMin ==
  [][PQExtractMin =>
       IF heap_size(tree_list) = 0
       THEN /\ last'.err = "EmptyQueue"
            /\ tree_list' = tree_list /\ timestamp' = timestamp
       ELSE /\ last'.err = "none"
            /\ last'.ret \in queued(tree_list)
            /\ \A x \in queued(tree_list) : timestamp[last'.ret] <= timestamp[x]
            /\ Len(tree_list') = Len(tree_list) - 1
            /\ queued(tree_list') = queued(tree_list) \ {last'.ret}
            /\ timestamp' = timestamp
            /\ HeapProperty(tree_list', timestamp')
  ]_vars

\* extract_min has just returned one of two nodes of minimum key from a full
\* queue; the other is now the root
C15_Witness ==
  /\ last.op = "extract_min" /\ last.err = "none"
  /\ Len(tree_list) = MaxElems - 1
  /\ timestamp[tree_list[1]] = timestamp[last.ret]
  /\ \E x \in queued(tree_list) : timestamp[x] > timestamp[last.ret]

\* C16 as stated: schedule_at_date(date) with date - now non-positive (date < now
\* and also date = now) returns ERROR_JOB_ID and is a no-op: no job is armed or
\* parked, no id is consumed and no timer is armed; with date - now positive it
\* issues the next id, as schedule_in_milisec(date - now) does.
C16_AsStated ==
  [][last'.op = "schedule_at_date" =>
       IF last'.arg <= now
       THEN /\ last'.ret = ERROR_JOB_ID
            /\ UNCHANGED << _id_seed, _scheduled_jobs, _pending_jobs, tree_list,
                            timestamp, timers, _pending_job_handle >>
       ELSE /\ last'.ret = _id_seed
            /\ _id_seed' = _id_seed + 1
  ]_vars

\* C17: immediately after _destroy() returns, no job is armed and no timer armed
\* by the scheduler is outstanding (job timers and the pump timer).
C17_Destroyed ==
  last.op = "_destroy" => (activeCount = 0 /\ timers = {})

\* _destroy has just returned after cancelling two armed jobs, none of which had
\* run, while a third job was parked (its pump was outstanding)
C17_Witness ==
  /\ last.op = "_destroy"
  /\ _jobs_cancelled = 2 /\ Cardinality(cancelled) = 2 /\ _jobs_done = 0
  /\ \A i \in 1..MaxJobs : ran[i] = 0
  /\ Len(tree_list) = 1
  /\ _pending_job_handle # NULL

\* C18 as stated: no scheduler operation and no pump firing reads or extracts the
\* minimum of an empty pending queue or calls decrease_key with an absent
\* element or a larger key: no operation ends with one of the resulting errors.
C18_AsStated ==
  last.err \notin {"TypeError", "EmptyQueue", "InvalidKey", "NotFound"}

\* C19: the pending queue holds exactly the PendingJobs of the _pending_jobs map
\* (same identities, same size) and no job id is in both _scheduled_jobs and
\* _pending_jobs.
C19_QueueIsMap ==
  /\ queued(tree_list) = {_pending_jobs[id] : id \in pendingIds}
  /\ \A id \in pendingIds : _pending_jobs[id] = id
  /\ Len(tree_list) = Cardinality(pendingIds)
  /\ DOMAIN _scheduled_jobs \cap pendingIds = {}

\* the pump has just promoted one job and left another pending, after a third
\* pending job was cancelled
C19_Witness ==
  /\ last.op = "pump" /\ last.err = "none"
  /\ _pending_jobs_cancelled = 1
  /\ activeCount = 1 /\ Len(tree_list) = 1
  /\ \E t \in jobTimers : t.job \in DOMAIN _scheduled_jobs

\* C20: cancel_job(id) of a known job changes exactly one counter. Armed:
\* _jobs_cancelled grows by 1 and activeCount drops by 1. Pending:
\* _pending_jobs_cancelled grows by 1 and the pending size drops by 1. In both
\* cases _jobs_done, the other cancel counter and every other job's entry are
\* unchanged.
C20_CancelCounts ==
  [][last'.op = "cancel_job" =>
       LET id == last'.arg
       IN  /\ id \in DOMAIN _scheduled_jobs =>
                /\ _jobs_cancelled' = _jobs_cancelled + 1
                /\ activeCount' = activeCount - 1
                /\ _scheduled_jobs' = map_delete(_scheduled_jobs, id)
                /\ UNCHANGED << _pending_jobs_cancelled, _jobs_done,
                                _pending_jobs, tree_list, timestamp >>
           /\ (id \in pendingIds /\ id \notin DOMAIN _scheduled_jobs) =>
                /\ _pending_jobs_cancelled' = _pending_jobs_cancelled + 1
                /\ Len(tree_list') = Len(tree_list) - 1
                /\ Cardinality(pendingIds') = Cardinality(pendingIds) - 1
                /\ _pending_jobs' = map_delete(_pending_jobs, id)
                /\ \A j \in pendingIds' : timestamp'[j] = timestamp[j]
                /\ UNCHANGED << _jobs_cancelled, _jobs_done, _scheduled_jobs >>
  ]_vars

\* an armed job has just been cancelled after a pending job was cancelled and a
\* job completed: each of the three counters stands at 1
C20_Witness ==
  /\ last.op = "cancel_job" /\ last.how = "armed"
  /\ _jobs_cancelled = 1 /\ _pending_jobs_cancelled = 1 /\ _jobs_done = 1

\* C21: job ids come from one strictly increasing counter shared by armed Jobs
\* and PendingJobs: a schedule call that issues an id returns _id_seed and
\* advances it by 1 (so the calls return 1, 2, 3, ... and no id is issued
\* twice), nothing else changes the counter, a promoted PendingJob keeps its id
\* as a Job, every stored job carries an issued id, and no issued id is
\* ERROR_JOB_ID.
C21_Ids ==
  /\ [](\A id \in DOMAIN _scheduled_jobs \cup pendingIds :
          /\ id # ERROR_JOB_ID /\ 1 <= id /\ id < _id_seed
          /\ id \in DOMAIN _scheduled_jobs => _scheduled_jobs[id].id = id)
  /\ [][/\ _id_seed' \in {_id_seed, _id_seed + 1}
        /\ _id_seed' # _id_seed <=>
             /\ last'.op \in {"schedule_in_milisec", "schedule_at_date"}
             /\ last'.ret # ERROR_JOB_ID
        /\ _id_seed' # _id_seed =>
             /\ last'.ret = _id_seed
             /\ last'.ret \in DOMAIN _scheduled_jobs' \cup pendingIds'
             /\ last'.ret \notin DOMAIN _scheduled_jobs \cup pendingIds
        /\ last'.op = "pump" =>
             \A id \in pendingIds \ pendingIds' :
               id \in DOMAIN _scheduled_jobs' /\ _scheduled_jobs'[id].id = id
     ]_vars

\* the third id has just been issued, to an armed job, after the first went to
\* a parked job that the pump has promoted under its own id
C21_Witness ==
  /\ last.op = "schedule_in_milisec" /\ last.ret = 3 /\ _id_seed = 4
  /\ {1, 3} \subseteq DOMAIN _scheduled_jobs
  /\ last.arg <= _max_delay
  /\ \E t \in jobTimers : t.job = 1 /\ t.due # now + t.delay

\* C22: postcondition of one pump firing at time now: every job it promoted had
\* timestamp - now <= _max_delay and every PendingJob still queued has
\* timestamp - now > _max_delay (all eligible jobs are promoted, not only the
\* minimum).
C22_PumpPostcondition ==
  [][last'.op = "pump" =>
       /\ \A id \in pendingIds \ pendingIds' :
            /\ timestamp[id] - now <= _max_delay
            /\ id \in DOMAIN _scheduled_jobs'
       /\ \A id \in pendingIds' :
            /\ id \in pendingIds
            /\ timestamp'[id] - now > _max_delay
       /\ queued(tree_list') = pendingIds'
  ]_vars

\* one pump firing has just promoted two jobs and left a third in the queue
C22_Witness ==
  /\ last.op = "pump" /\ last.err = "none"
  /\ activeCount = 2 /\ Cardinality(jobTimers) = 2
  /\ \A t \in jobTimers : t.due = now + t.delay
  /\ Len(tree_list) = 1
  /\ _jobs_done = 0 /\ _jobs_cancelled = 0

\* C23 as stated: after a pump firing, the pump handle is cleared if the pending
\* queue is empty; otherwise exactly one new pump timer is armed, with delay
\* min(remaining - _max_delay, _max_delay), where remaining is timestamp - now of
\* the new queue minimum, and that delay is strictly positive.
C23_AsStated ==
  [][last'.op = "pump" =>
       IF heap_size(tree_list') = 0
       THEN _pending_job_handle' = NULL /\ pumpTimers' = {}
       ELSE LET remaining == timestamp'[min_node(tree_list')] - now
            IN  /\ Cardinality(pumpTimers') = 1
                /\ \A t \in pumpTimers' :
                     /\ t.h = _pending_job_handle'
                     /\ t \notin timers
                     /\ t.delay = Min(remaining - _max_delay, _max_delay)
                     /\ t.delay > 0
  ]_vars

\* C24: fewest re-arms. A single job scheduled with delay d > _max_delay, no
\* other scheduler call, a timer that fires on time: the pump has fired exactly
\* ceil(d / _max_delay) - 1 times when the job is armed, the job is armed for
\* _max_delay, and its task runs at exactly d after the schedule call.
C24_FewestRearms ==
  [][(_id_seed = 2 /\ _id_seed' = 2 /\ hist.delay > _max_delay) =>
       /\ (last'.op = "pump" /\ 1 \in DOMAIN _scheduled_jobs') =>
            /\ hist'.pumps = ((hist.delay + _max_delay - 1) \div _max_delay) - 1
            /\ \A t \in jobTimers' :
                 t.delay = _max_delay /\ t.due = hist.at + hist.delay
       /\ (last'.op = "pump" /\ 1 \notin DOMAIN _scheduled_jobs') =>
            hist'.pumps < ((hist.delay + _max_delay - 1) \div _max_delay) - 1
       /\ last'.op = "exc_scheduled_job" =>
            /\ last'.arg = 1 /\ ran'[1] = 1
            /\ now = hist.at + hist.delay
            /\ hist'.pumps = ((hist.delay + _max_delay - 1) \div _max_delay) - 1
  ]_vars

\* the only job, scheduled with delay 2 * _max_delay + 1, has just run, at its
\* target time, after two pump firings
C24_Witness ==
  /\ _id_seed = 2 /\ hist.delay = 2 * _max_delay + 1
  /\ last.op = "exc_scheduled_job" /\ ran[1] = 1
  /\ hist.pumps = 2
  /\ now = hist.at + hist.delay

\* C25 as stated: an armed job never re-enters the pending queue and no id is
\* counted by more than one of _jobs_done, _jobs_cancelled and
\* _pending_jobs_cancelled: the counters never add up to more than the ids
\* issued, and a step that runs or cancels one job advances them by at most 1
\* in total - also when the task cancels its own job.
C25_AsStated ==
  /\ [](_jobs_done + _jobs_cancelled + _pending_jobs_cancelled <= _id_seed - 1)
  /\ [][/\ \A id \in DOMAIN _scheduled_jobs : id \notin pendingIds'
        /\ last'.op \in {"exc_scheduled_job", "cancel_job"} =>
             (_jobs_done' + _jobs_cancelled' + _pending_jobs_cancelled')
               <= (_jobs_done + _jobs_cancelled + _pending_jobs_cancelled) + 1
     ]_vars

\* C26 as stated: with a timer that fires on time, whenever the pump promotes a
\* PendingJob its remaining delay timestamp - now is >= 0.
C26_AsStated ==
  [][last'.op = "pump" =>
       \A id \in pendingIds \ pendingIds' : timestamp[id] - now >= 0
  ]_vars

\* C27: while _destroy has not been called, a non-empty pending queue implies
\* that a pump timer is outstanding, and it is the one _pending_job_handle
\* refers to.
C27_PumpOutstanding ==
  heap_size(tree_list) > 0 =>
    \E t \in pumpTimers : t.h = _pending_job_handle

\* the pump has just promoted a job and re-armed itself for a job still
\* pending, after a pending job was cancelled
C27_Witness ==
  /\ last.op = "pump" /\ last.err = "none"
  /\ heap_size(tree_list) = 1 /\ activeCount = 1
  /\ _pending_jobs_cancelled = 1
  /\ \E t \in pumpTimers : t.due = now + t.delay

\* C28: conservation of jobs. When tasks return normally and do not call the
\* scheduler, in every state the ids issued so far are the armed jobs, the
\* pending jobs and the jobs counted done, cancelled and cancelled while
\* pending.
C28_Conservation ==
  _id_seed - 1 = activeCount + heap_size(tree_list) + _jobs_done
                   + _jobs_cancelled + _pending_jobs_cancelled

\* three ids issued: one job done, one cancelled while armed, one cancelled
\* while pending
C28_Witness ==
  /\ _id_seed = 4
  /\ _jobs_done = 1 /\ _jobs_cancelled = 1 /\ _pending_jobs_cancelled = 1
  /\ activeCount = 0 /\ heap_size(tree_list) = 0

\* C29: if a job's task throws when its timer fires, the job stays in
\* _scheduled_jobs with a non-null ref (activeCount does not drop), _jobs_done
\* is not incremented, and every other armed job, pending job and the pump
\* timer are unchanged.
C29_ThrowingTask ==
  [][(last'.op = "exc_scheduled_job" /\ last'.how = "throw") =>
       LET id == last'.arg
       IN  /\ last'.err = "callback"
           /\ id \in DOMAIN _scheduled_jobs
           /\ _scheduled_jobs' = _scheduled_jobs
           /\ _scheduled_jobs'[id].ref # NULL
           /\ activeCount' = activeCount
           /\ ran' = [ran EXCEPT ![id] = @ + 1]
           /\ timers' = {t \in timers : ~(t.kind = "job" /\ t.job = id)}
           /\ pumpTimers' = pumpTimers
           /\ UNCHANGED << _jobs_done, _jobs_cancelled, _pending_jobs_cancelled,
                           tree_list, timestamp, _pending_jobs,
                           _pending_job_handle, _id_seed >>
  ]_vars

\* a task has just thrown while another job is armed, a job is pending and the
\* pump is outstanding
C29_Witness ==
  /\ last.op = "exc_scheduled_job" /\ last.how = "throw" /\ last.err = "callback"
  /\ activeCount = 2 /\ Cardinality(jobTimers) = 1
  /\ heap_size(tree_list) = 1 /\ Cardinality(pumpTimers) = 1
  /\ _jobs_done = 0

====
